---- MODULE Spec2Model ----
(***************************************************************************)
(* Star fee distributor: the daily distribution state machine (Progress),  *)
(* the crank handler and the distribution arithmetic, modelled from        *)
(* programs/star_fee_distributor/src.                                      *)
(*                                                                         *)
(* One instruction is one atomic step: the handler runs on a working copy  *)
(* of Progress and of the token balances, and the host commits the copy    *)
(* only when the handler returns Ok.  Amounts are modelled at a narrower    *)
(* width than u64 (AmountBits); the amounts of the state machine stay far  *)
(* below it, the arithmetic functions are also applied at its limits.      *)
(***************************************************************************)
EXTENDS Integers, Sequences, FiniteSets, TLC

\* ------------------------------------------------------------------ bounds
\* The clock stops at MaxDays days after the epoch.
MaxDays == 2
\* Width in bits of the amount type.  The program's amounts are u64; the
\* model keeps every narrowing conversion (`as u64`) and every checked_add
\* of the program at this narrower width, the u128 intermediates being exact.
AmountBits == 20
MaxPages == 6

\* ------------------------------------------------------- program constants
SECONDS_PER_DAY == 86400
BPS_DENOMINATOR == 10000
FINAL_PAGE == 10
MAX_FEE_SHARE_BPS == 10000
\* Width of the basis-point type u16.
U16_BITS == 16

\* ------------------------------------------------------------ input domains
\* Parameters offered to initialize (valid and invalid ones).
FeeShareChoices == {5000, 10000, 10001}
DailyCapChoices == {0, 500}
MinPayoutChoices == {0, 151}
Y0Choices == {0, 1000}
\* Arguments offered to crank_distribute.
PageChoices == {0, 1, FINAL_PAGE}
BaseAmountChoices == {0, 1}
QuoteAmountChoices == {10, 1000}
\* investor_accounts of one page: the locked_amount of each InvestorAccount;
\* the account at position i pays to the token account i.
InvestorPages == {<< >>, <<0>>, <<700>>, <<300, 700>>}
Atas == UNION {DOMAIN s : s \in InvestorPages}
\* Clock advances between two instructions.
TickSteps == {SECONDS_PER_DAY - 1, SECONDS_PER_DAY}
MaxClock == SECONDS_PER_DAY * MaxDays

VARIABLES
    initialized,       \* the Policy and Progress accounts exist
    policy,            \* Policy account
    progress,          \* Progress account
    clock,             \* Clock::get().unix_timestamp
    treasury,          \* balance of program_treasury
    creator,           \* balance of creator_quote_ata
    investor,          \* balance of each investor_quote_ata
    call,              \* the last instruction: arguments, result, emitted values
    pre                \* the accounts as they were when the last instruction started

vars == <<initialized, policy, progress, clock, treasury, creator, investor, call, pre>>

\* ------------------------------------------------------------------ helpers
Min(a, b) == IF a <= b THEN a ELSE b

\* u64::checked_sub(..).unwrap_or(0)
SaturatingSub(a, b) == IF a >= b THEN a - b ELSE 0

\* The largest amount, u64::MAX of the program.
AMOUNT_MAX == 2^AmountBits - 1

\* x as u64, x as u16: the low bits of a wider value.
AsAmount(x) == x % (2^AmountBits)

AsU16(x) == x % (2^U16_BITS)

RECURSIVE GCD(_, _)
GCD(a, b) == IF b = 0 THEN a ELSE GCD(b, a % b)

\* (a as u128).checked_mul(b)?.checked_div(d)? for d > 0: floor(a * b / d).
\* The product of two 64-bit values fits u128, so neither step fails; the
\* fraction b / d is reduced first, which leaves the quotient unchanged.
WideMulDiv(a, b, d) ==
    LET g == GCD(b, d) IN (a * (b \div g)) \div (d \div g)

RECURSIVE SumSeq(_)
SumSeq(s) == IF s = << >> THEN 0 ELSE Head(s) + SumSeq(Tail(s))

\* -------------------------------------------------------- DistributionMath
calculate_eligible_share_bps_unclamped(locked_total, y0, max_investor_fee_share_bps) ==
    IF y0 = 0 THEN 0
    ELSE AsU16(WideMulDiv(locked_total, BPS_DENOMINATOR, y0))

calculate_eligible_share_bps(locked_total, y0, max_investor_fee_share_bps) ==
    IF y0 = 0 THEN 0
    ELSE LET f_locked == WideMulDiv(locked_total, BPS_DENOMINATOR, y0)
         IN  AsU16(Min(f_locked, max_investor_fee_share_bps))

calculate_investor_fee_quote_per_mille(claimed_quote, eligible_share_bps) ==
    AsAmount(WideMulDiv(claimed_quote, eligible_share_bps, 1000))

calculate_investor_fee_quote(claimed_quote, eligible_share_bps) ==
    IF eligible_share_bps = 0 THEN 0
    ELSE AsAmount(WideMulDiv(claimed_quote, eligible_share_bps, BPS_DENOMINATOR))

apply_daily_cap(requested_amount, daily_cap, already_distributed) ==
    LET remaining_cap == SaturatingSub(daily_cap, already_distributed)
    IN  Min(requested_amount, remaining_cap)

calculate_investor_weight_divfirst(investor_locked, total_locked) ==
    IF total_locked = 0 THEN 0
    ELSE AsAmount((investor_locked \div total_locked) * BPS_DENOMINATOR)

calculate_investor_weight(investor_locked, total_locked) ==
    IF total_locked = 0 THEN 0
    ELSE AsAmount(WideMulDiv(investor_locked, BPS_DENOMINATOR, total_locked))

\* payout_amount: the payout before the minimum payout threshold is applied.
RawPayout_plus_one(total_investor_fee_quote, investor_weight_bps) ==
    AsAmount(WideMulDiv(total_investor_fee_quote, investor_weight_bps, BPS_DENOMINATOR) + 1)

RawPayout(total_investor_fee_quote, investor_weight_bps) ==
    AsAmount(WideMulDiv(total_investor_fee_quote, investor_weight_bps, BPS_DENOMINATOR))

calculate_investor_payout_nofilter(total_investor_fee_quote, investor_weight_bps, min_payout_lamports) ==
    RawPayout(total_investor_fee_quote, investor_weight_bps)

calculate_investor_payout(total_investor_fee_quote, investor_weight_bps, min_payout_lamports) ==
    LET payout_amount == RawPayout(total_investor_fee_quote, investor_weight_bps)
    IN  IF payout_amount < min_payout_lamports THEN 0 ELSE payout_amount

\* --------------------------------------------------------- ValidationUtils
detect_base_fees_never(base_amount) == TRUE

\* TRUE when the check passes, FALSE for Err(BaseFeeDetected).
detect_base_fees(base_amount) == base_amount = 0

\* TRUE when the check passes, FALSE for Err(InvalidPoolTokenOrder).
validate_quote_only_pool(token_b, expected_quote_mint) == token_b = expected_quote_mint

\* ---------------------------------------------------------- Policy, Progress
NoPolicy == [investor_fee_share_bps |-> 0, daily_cap |-> 0, min_payout_lamports |-> 0, y0 |-> 0]

PolicyNew(investor_fee_share_bps, daily_cap, min_payout_lamports, y0) ==
    [investor_fee_share_bps |-> investor_fee_share_bps, daily_cap |-> daily_cap,
     min_payout_lamports |-> min_payout_lamports, y0 |-> y0]

PolicyValidate_y0first(p) ==
    IF ~(p.y0 > 0) THEN "InvalidY0"
    ELSE IF ~(p.investor_fee_share_bps <= MAX_FEE_SHARE_BPS) THEN "InvalidFeeShareBps"
    ELSE IF ~(p.daily_cap > 0) THEN "InvalidDailyCap"
    ELSE IF ~(p.min_payout_lamports > 0) THEN "InvalidMinPayout"
    ELSE "Ok"

\* "Ok" or the first failing requirement.
PolicyValidate(p) ==
    IF ~(p.investor_fee_share_bps <= MAX_FEE_SHARE_BPS) THEN "InvalidFeeShareBps"
    ELSE IF ~(p.daily_cap > 0) THEN "InvalidDailyCap"
    ELSE IF ~(p.min_payout_lamports > 0) THEN "InvalidMinPayout"
    ELSE IF ~(p.y0 > 0) THEN "InvalidY0"
    ELSE "Ok"

ProgressNew ==
    [last_distribution_ts |-> 0, distributed_today |-> 0, carry_over |-> 0,
     pagination_cursor |-> 0, current_day |-> 0, claimed_today |-> 0,
     day_complete |-> FALSE]

is_new_day_early(pr, current_ts) ==
    current_ts >= pr.last_distribution_ts + SECONDS_PER_DAY - 1

is_new_day(pr, current_ts) ==
    current_ts >= pr.last_distribution_ts + SECONDS_PER_DAY

reset_for_new_day_keep_ledger(pr, current_ts) ==
    [pr EXCEPT !.last_distribution_ts = current_ts,
               !.pagination_cursor = 0,
               !.current_day = current_ts \div SECONDS_PER_DAY,
               !.day_complete = FALSE]

reset_for_new_day_keep_day(pr, current_ts) ==
    [pr EXCEPT !.last_distribution_ts = current_ts,
               !.distributed_today = 0,
               !.claimed_today = 0,
               !.pagination_cursor = 0,
               !.day_complete = FALSE]

reset_for_new_day_roll_remainder(pr, current_ts) ==
    [pr EXCEPT !.last_distribution_ts = current_ts,
               !.distributed_today = 0,
               !.claimed_today = 0,
               !.carry_over = @ + SaturatingSub(pr.claimed_today, pr.distributed_today),
               !.pagination_cursor = 0,
               !.current_day = current_ts \div SECONDS_PER_DAY,
               !.day_complete = FALSE]

reset_for_new_day_drop_carry(pr, current_ts) ==
    [pr EXCEPT !.last_distribution_ts = current_ts,
               !.distributed_today = 0,
               !.claimed_today = 0,
               !.carry_over = 0,
               !.pagination_cursor = 0,
               !.current_day = current_ts \div SECONDS_PER_DAY,
               !.day_complete = FALSE]

reset_for_new_day_keep_ts(pr, current_ts) ==
    [pr EXCEPT !.distributed_today = 0,
               !.claimed_today = 0,
               !.pagination_cursor = 0,
               !.current_day = current_ts \div SECONDS_PER_DAY,
               !.day_complete = FALSE]

reset_for_new_day(pr, current_ts) ==
    [pr EXCEPT !.last_distribution_ts = current_ts,
               !.distributed_today = 0,
               !.claimed_today = 0,
               !.pagination_cursor = 0,
               !.current_day = current_ts \div SECONDS_PER_DAY,
               !.day_complete = FALSE]

\* ------------------------------------------------------------ crank handler
\* claim_fees_from_position: the amounts come from the CP-AMM position and
\* the claimed quote amount lands in program_treasury.
ClaimResults == [base_amount : BaseAmountChoices, quote_amount : QuoteAmountChoices]

is_final_page_for_day_always(current_page) == current_page >= 1

is_final_page_for_day_after(current_page) == current_page > FINAL_PAGE

is_final_page_for_day(current_page) == current_page >= FINAL_PAGE

\* The 24h gate at the head of the handler: the Progress the handler goes on
\* with, and whether the gate lets the call through.
DayGate_nowait(pr, current_timestamp) ==
    IF is_new_day(pr, current_timestamp)
    THEN [ok |-> TRUE, rolled |-> TRUE, progress |-> reset_for_new_day(pr, current_timestamp)]
    ELSE [ok |-> TRUE, rolled |-> FALSE, progress |-> pr]

DayGate(pr, current_timestamp) ==
    IF is_new_day(pr, current_timestamp)
    THEN [ok |-> TRUE, rolled |-> TRUE, progress |-> reset_for_new_day(pr, current_timestamp)]
    ELSE LET time_since_last == current_timestamp - pr.last_distribution_ts
         IN  [ok |-> time_since_last >= SECONDS_PER_DAY, rolled |-> FALSE, progress |-> pr]

\* The values a handler run computes and emits; all 0 until they are computed.
NoOut ==
    [rolled |-> FALSE, claimed |-> FALSE, total_locked |-> 0, eligible_share_bps |-> 0,
     total_investor_fee_quote |-> 0, capped_investor_fee |-> 0, carry_over_in |-> 0,
     total_to_distribute |-> 0, payouts |-> << >>, distributed_this_page |-> 0,
     carry_over_this_page |-> 0, closed |-> FALSE, remainder |-> 0]

\* A handler run: its result, the working copy of Progress when it returned,
\* and the values it computed.
Exit(result, pr, out) == [result |-> result, progress |-> pr, out |-> out]

\* The eligible share and the investor fee of a page (crank.rs 131-142).
InvestorFeeSplit(claimed_quote, total_locked, y0, investor_fee_share_bps) ==
    LET eligible_share_bps ==
            calculate_eligible_share_bps(total_locked, y0, investor_fee_share_bps)
    IN  [eligible_share_bps |-> eligible_share_bps,
         total_investor_fee_quote |->
             calculate_investor_fee_quote(claimed_quote, eligible_share_bps)]

\* The payout of each investor of a page (crank.rs 170-182).
PagePayouts(total_to_distribute, investor_accounts, total_locked, min_payout_lamports) ==
    [i \in DOMAIN investor_accounts |->
        calculate_investor_payout(
            total_to_distribute,
            calculate_investor_weight(investor_accounts[i], total_locked),
            min_payout_lamports)]

\* The page loop, the ledger update and the day close (crank.rs 131-303),
\* entered with the working copy p2 after claimed_today was accumulated.
DistributePage(p2, pol, balance, page, quote_amount, investor_accounts, out2) ==
    LET total_locked == out2.total_locked
        split == InvestorFeeSplit(quote_amount, total_locked, pol.y0,
                                  pol.investor_fee_share_bps)
        eligible_share_bps == split.eligible_share_bps
        total_investor_fee_quote == split.total_investor_fee_quote
        capped_investor_fee ==
            apply_daily_cap(total_investor_fee_quote, pol.daily_cap, p2.distributed_today)
        total_to_distribute == capped_investor_fee + p2.carry_over
        payouts == PagePayouts(total_to_distribute, investor_accounts, total_locked,
                               pol.min_payout_lamports)
        distributed_this_page == SumSeq(payouts)
        carry_over_this_page == SaturatingSub(total_to_distribute, distributed_this_page)
        p3 == [p2 EXCEPT !.distributed_today = @ + distributed_this_page,
                         !.carry_over = carry_over_this_page,
                         !.pagination_cursor = page]
        closing == is_final_page_for_day(page)
        remainder == IF closing THEN SaturatingSub(p3.claimed_today, p3.distributed_today) ELSE 0
        p4 == IF closing THEN [p3 EXCEPT !.day_complete = TRUE, !.carry_over = 0] ELSE p3
        out3 == [out2 EXCEPT !.eligible_share_bps = eligible_share_bps,
                             !.total_investor_fee_quote = total_investor_fee_quote,
                             !.capped_investor_fee = capped_investor_fee,
                             !.carry_over_in = p2.carry_over,
                             !.total_to_distribute = total_to_distribute,
                             !.payouts = payouts,
                             !.distributed_this_page = distributed_this_page,
                             !.carry_over_this_page = carry_over_this_page,
                             !.closed = closing,
                             !.remainder = remainder]
    IN  IF total_to_distribute > AMOUNT_MAX THEN Exit("MathOverflow", p2, out2)
        \* token::transfer fails when program_treasury does not hold the amount
        ELSE IF distributed_this_page > balance THEN Exit("InsufficientFunds", p2, out2)
        ELSE IF distributed_this_page > AMOUNT_MAX THEN Exit("MathOverflow", p2, out2)
        ELSE IF p2.distributed_today + distributed_this_page > AMOUNT_MAX
             THEN Exit("MathOverflow", p2, out2)
        ELSE IF remainder > balance - distributed_this_page THEN Exit("InsufficientFunds", p3, out3)
        ELSE Exit("Ok", p4, out3)

handler_empty_first(pr, pol, treasury_balance, page, current_timestamp, claim_result, investor_accounts) ==
    IF investor_accounts = << >> THEN Exit("NoLockedInvestors", pr, NoOut)
    ELSE IF ~(page > 0) THEN Exit("InvalidPage", pr, NoOut)
    ELSE
    LET gate == DayGate(pr, current_timestamp)
        p1 == gate.progress
        out1 == [NoOut EXCEPT !.rolled = gate.rolled]
    IN
    IF ~gate.ok THEN Exit("DistributionTooEarly", p1, out1)
    ELSE IF p1.day_complete THEN Exit("DistributionAlreadyComplete", p1, out1)
    ELSE
    LET outc == [out1 EXCEPT !.claimed = TRUE]
    IN
    IF ~detect_base_fees(claim_result.base_amount) THEN Exit("BaseFeeDetected", p1, outc)
    ELSE IF p1.claimed_today + claim_result.quote_amount > AMOUNT_MAX
         THEN Exit("MathOverflow", p1, outc)
    ELSE
    LET p2 == [p1 EXCEPT !.claimed_today = @ + claim_result.quote_amount]
        total_locked == SumSeq(investor_accounts)
        out2 == [outc EXCEPT !.total_locked = total_locked]
    IN
    IF ~(total_locked > 0) THEN Exit("NoLockedInvestors", p2, out2)
    ELSE DistributePage(p2, pol, treasury_balance + claim_result.quote_amount, page,
                        claim_result.quote_amount, investor_accounts, out2)

handler(pr, pol, treasury_balance, page, current_timestamp, claim_result, investor_accounts) ==
    IF ~(page > 0) THEN Exit("InvalidPage", pr, NoOut)
    ELSE
    LET gate == DayGate(pr, current_timestamp)
        p1 == gate.progress
        out1 == [NoOut EXCEPT !.rolled = gate.rolled]
    IN
    IF ~gate.ok THEN Exit("DistributionTooEarly", p1, out1)
    ELSE IF p1.day_complete THEN Exit("DistributionAlreadyComplete", p1, out1)
    ELSE IF investor_accounts = << >> THEN Exit("NoLockedInvestors", p1, out1)
    ELSE
    LET outc == [out1 EXCEPT !.claimed = TRUE]
    IN
    IF ~detect_base_fees(claim_result.base_amount) THEN Exit("BaseFeeDetected", p1, outc)
    ELSE IF p1.claimed_today + claim_result.quote_amount > AMOUNT_MAX
         THEN Exit("MathOverflow", p1, outc)
    ELSE
    LET p2 == [p1 EXCEPT !.claimed_today = @ + claim_result.quote_amount]
        total_locked == SumSeq(investor_accounts)
        out2 == [outc EXCEPT !.total_locked = total_locked]
    IN
    IF ~(total_locked > 0) THEN Exit("NoLockedInvestors", p2, out2)
    ELSE DistributePage(p2, pol, treasury_balance + claim_result.quote_amount, page,
                        claim_result.quote_amount, investor_accounts, out2)

\* ------------------------------------------------------------- state machine
Accounts == [progress |-> progress, treasury |-> treasury, creator |-> creator,
             investor |-> investor]

NoCall == [op |-> "none", args |-> << >>, now |-> 0, result |-> "none",
           dirty |-> ProgressNew, out |-> NoOut]

Init ==
    /\ initialized = FALSE
    /\ policy = NoPolicy
    /\ progress = ProgressNew
    /\ clock = SECONDS_PER_DAY
    /\ treasury = 0
    /\ creator = 0
    /\ investor = [a \in Atas |-> 0]
    /\ call = NoCall
    /\ pre = Accounts

\* initialize_honorary_position (initialize.rs 67-148).  token_b_is_quote:
\* PoolConfig.token_b is the quote mint; treasury_mint_ok: the treasury
\* account is of the quote mint.
InitializeResult(p, token_b_is_quote, treasury_mint_ok) ==
    IF PolicyValidate(p) # "Ok" THEN PolicyValidate(p)
    ELSE IF ~validate_quote_only_pool(token_b_is_quote, TRUE) THEN "InvalidPoolTokenOrder"
    ELSE IF ~treasury_mint_ok THEN "InvalidQuoteMint"
    ELSE "Ok"

\* pool_token_b_is_quote: the second token of the cp_amm_pool account is the
\* quote mint.  The handler does not read the pool: it fills PoolConfig.token_b
\* from the quote_mint account and compares it with that same account.
Initialize(fee_bps, daily_cap, min_payout, y0, pool_token_b_is_quote, treasury_mint_ok) ==
    /\ ~initialized
    /\ LET p == PolicyNew(fee_bps, daily_cap, min_payout, y0)
           result == InitializeResult(p, TRUE, treasury_mint_ok)
       IN  /\ call' = [op |-> "initialize",
                       args |-> [investor_fee_share_bps |-> fee_bps, daily_cap |-> daily_cap,
                                 min_payout_lamports |-> min_payout, y0 |-> y0,
                                 pool_token_b_is_quote |-> pool_token_b_is_quote,
                                 treasury_mint_ok |-> treasury_mint_ok],
                       now |-> clock, result |-> result, dirty |-> ProgressNew, out |-> NoOut]
           /\ pre' = Accounts
           /\ IF result = "Ok"
              THEN /\ initialized' = TRUE
                   /\ policy' = p
                   /\ progress' = ProgressNew
              ELSE UNCHANGED <<initialized, policy, progress>>
    /\ UNCHANGED <<clock, treasury, creator, investor>>

\* The treasury and the destination accounts after the transfers of a run.
PayInvestors(payouts) ==
    [a \in Atas |-> investor[a] + (IF a \in DOMAIN payouts THEN payouts[a] ELSE 0)]

\* crank_distribute (lib.rs 29-35, crank.rs 73-303): the run is committed
\* only when it returns Ok.
Crank(page, claim_result, investor_accounts) ==
    /\ initialized
    /\ LET run == handler(progress, policy, treasury, page, clock, claim_result,
                          investor_accounts)
       IN  /\ call' = [op |-> "crank",
                       args |-> [page |-> page, base_amount |-> claim_result.base_amount,
                                 quote_amount |-> claim_result.quote_amount,
                                 investor_accounts |-> investor_accounts],
                       now |-> clock, result |-> run.result, dirty |-> run.progress,
                       out |-> run.out]
           /\ pre' = Accounts
           /\ IF run.result = "Ok"
              THEN /\ progress' = run.progress
                   /\ treasury' = treasury + claim_result.quote_amount
                                    - run.out.distributed_this_page - run.out.remainder
                   /\ creator' = creator + run.out.remainder
                   /\ investor' = PayInvestors(run.out.payouts)
              ELSE UNCHANGED <<progress, treasury, creator, investor>>
    /\ UNCHANGED <<initialized, policy, clock>>

\* Time passes between two instructions.
Tick(dt) ==
    /\ clock + dt <= MaxClock
    /\ clock' = clock + dt
    /\ UNCHANGED <<initialized, policy, progress, treasury, creator, investor, call, pre>>

Next ==
    \/ \E f \in FeeShareChoices, c \in DailyCapChoices, m \in MinPayoutChoices,
          y \in Y0Choices, b \in BOOLEAN, t \in BOOLEAN : Initialize(f, c, m, y, b, t)
    \/ \E page \in PageChoices, claim_result \in ClaimResults, inv \in InvestorPages :
          Crank(page, claim_result, inv)
    \/ \E dt \in TickSteps : Tick(dt)

Spec == Init /\ [][Next]_vars

TypeOK ==
    /\ initialized \in BOOLEAN
    /\ clock \in 0..MaxClock
    /\ treasury \in Nat
    /\ creator \in Nat
    /\ \A a \in Atas : investor[a] \in Nat
    /\ progress.day_complete \in BOOLEAN

\* ------------------------------------------------- the arithmetic on its own
\* Arguments offered to the DistributionMath functions called directly, up to
\* the limits of their types.
LockedSamples == {0, 500, 1000, 500000, AMOUNT_MAX}
Y0Samples == {0, 1000, 1000000}
MaxBpsSamples == {0, 5000, 10000, 10001, 2^U16_BITS - 1}
ClaimedSamples == {0, 1000, 100000, AMOUNT_MAX}
ShareBpsSamples == {0, 5000, 10000, 20000, 60000}
TotalLockedSamples == {0, 1000, 10000}
WeightSamples == {0, 3000, 7000, 10000, 20000}
DistributeSamples == {0, 505, 1000, AMOUNT_MAX}
MinPayoutSamples == {1, 151, 300, 301}
PageSamples == {<<700>>, <<300, 700>>, <<300, 300>>, <<100, 200>>}

\* A call of a function of DistributionMath changes no account.
Applied ==
    /\ pre' = Accounts
    /\ UNCHANGED <<initialized, policy, progress, clock, treasury, creator, investor>>

ApplyEligibleShare(locked_total, y0, max_bps) ==
    /\ ~initialized
    /\ call' = [op |-> "calculate_eligible_share_bps",
                args |-> [locked_total |-> locked_total, y0 |-> y0, max_bps |-> max_bps],
                now |-> clock,
                result |-> calculate_eligible_share_bps(locked_total, y0, max_bps),
                dirty |-> ProgressNew, out |-> NoOut]
    /\ Applied

ApplyInvestorFeeQuote(claimed_quote, eligible_share_bps) ==
    /\ ~initialized
    /\ call' = [op |-> "calculate_investor_fee_quote",
                args |-> [claimed_quote |-> claimed_quote,
                         eligible_share_bps |-> eligible_share_bps],
                now |-> clock,
                result |-> calculate_investor_fee_quote(claimed_quote, eligible_share_bps),
                dirty |-> ProgressNew, out |-> NoOut]
    /\ Applied

ApplyInvestorWeight(investor_locked, total_locked) ==
    /\ ~initialized
    /\ call' = [op |-> "calculate_investor_weight",
                args |-> [investor_locked |-> investor_locked,
                         total_locked |-> total_locked],
                now |-> clock,
                result |-> calculate_investor_weight(investor_locked, total_locked),
                dirty |-> ProgressNew, out |-> NoOut]
    /\ Applied

ApplyInvestorPayout(total, weight_bps, min_payout) ==
    /\ ~initialized
    /\ call' = [op |-> "calculate_investor_payout",
                args |-> [min_payout |-> min_payout, total |-> total,
                         weight_bps |-> weight_bps],
                now |-> clock,
                result |-> calculate_investor_payout(total, weight_bps, min_payout),
                dirty |-> ProgressNew, out |-> NoOut]
    /\ Applied

\* The fee split of a claim as the crank computes it (crank.rs 131-142).
ApplyFeeSplit(claimed_quote, locked_total, y0, max_bps) ==
    /\ ~initialized
    /\ call' = [op |-> "fee_split",
                args |-> [locked_total |-> locked_total, y0 |-> y0,
                         claimed_quote |-> claimed_quote, max_bps |-> max_bps],
                now |-> clock,
                result |-> InvestorFeeSplit(claimed_quote, locked_total, y0, max_bps),
                dirty |-> ProgressNew, out |-> NoOut]
    /\ Applied

\* The payouts of a page as the crank computes them (crank.rs 166-226).
ApplyPagePayouts(total, investor_accounts, min_payout) ==
    /\ ~initialized
    /\ call' = [op |-> "page_payouts",
                args |-> [investor_accounts |-> investor_accounts,
                         min_payout |-> min_payout, total |-> total],
                now |-> clock,
                result |-> [carry_over |->
                               SaturatingSub(total,
                                   SumSeq(PagePayouts(total, investor_accounts,
                                       SumSeq(investor_accounts), min_payout))),
                           payouts |-> PagePayouts(total, investor_accounts,
                                                   SumSeq(investor_accounts), min_payout)],
                dirty |-> ProgressNew, out |-> NoOut]
    /\ Applied

\* ----------------------------------------------------------- PaginationUtils
\* The helpers compute in u64 with plain operators: a result outside the
\* u64 range panics when the program is built with overflow checks and
\* keeps its low bits otherwise.
Overflows(x) == x < 0 \/ x > AMOUNT_MAX

get_page_bounds_start(page, page_size) == AsAmount(AsAmount(page - 1) * page_size)

get_page_bounds_end(page, page_size) ==
    AsAmount(get_page_bounds_start(page, page_size) + page_size)

get_page_bounds_overflows(page, page_size) ==
    \/ Overflows(page - 1)
    \/ Overflows(AsAmount(page - 1) * page_size)
    \/ Overflows(get_page_bounds_start(page, page_size) + page_size)

is_last_page(page, page_size, total_accounts) ==
    get_page_bounds_end(page, page_size) >= total_accounts

get_page_size(page, page_size, total_accounts) ==
    LET start == get_page_bounds_start(page, page_size)
        page_end == Min(get_page_bounds_end(page, page_size), total_accounts)
    IN  IF start >= total_accounts THEN 0 ELSE AsAmount(page_end - start)

get_page_size_overflows(page, page_size, total_accounts) ==
    \/ get_page_bounds_overflows(page, page_size)
    \/ /\ get_page_bounds_start(page, page_size) < total_accounts
       /\ Overflows(Min(get_page_bounds_end(page, page_size), total_accounts)
                      - get_page_bounds_start(page, page_size))

\* Walking the pages 1, 2, ... of a list until is_last_page holds: the first
\* last page (0 if none up to MaxPages) and the pages walked.
LastPage(page_size, total_accounts) ==
    IF \E p \in 1..MaxPages : is_last_page(p, page_size, total_accounts)
    THEN CHOOSE p \in 1..MaxPages :
             /\ is_last_page(p, page_size, total_accounts)
             /\ \A q \in 1..(p - 1) : ~is_last_page(q, page_size, total_accounts)
    ELSE 0

PagesWalked(page_size, total_accounts) ==
    IF LastPage(page_size, total_accounts) = 0 THEN 1..MaxPages
    ELSE 1..LastPage(page_size, total_accounts)

RECURSIVE SumPageSizes(_, _, _)
SumPageSizes(pages, page_size, total_accounts) ==
    IF pages = {} THEN 0
    ELSE LET p == CHOOSE q \in pages : TRUE
         IN  get_page_size(p, page_size, total_accounts)
                + SumPageSizes(pages \ {p}, page_size, total_accounts)

PageNumberSamples == {1, 2, 3}
PageSizeSamples == {1, 2, 3, 2^(AmountBits - 1)}
TotalAccountsSamples == {0, 1, 5, 6, AMOUNT_MAX}

ApplyPageBounds(page, page_size, overflow_checks) ==
    /\ ~initialized
    /\ call' = [op |-> "get_page_bounds",
                args |-> [page |-> page, page_size |-> page_size,
                         overflow_checks |-> overflow_checks],
                now |-> clock,
                result |-> [start |-> get_page_bounds_start(page, page_size),
                           panic |-> overflow_checks
                                        /\ get_page_bounds_overflows(page, page_size),
                           end |-> get_page_bounds_end(page, page_size)],
                dirty |-> ProgressNew, out |-> NoOut]
    /\ Applied

ApplyIsLastPage(page, page_size, total_accounts, overflow_checks) ==
    /\ ~initialized
    /\ call' = [op |-> "is_last_page",
                args |-> [page |-> page, page_size |-> page_size,
                         total_accounts |-> total_accounts,
                         overflow_checks |-> overflow_checks],
                now |-> clock,
                result |-> [panic |-> overflow_checks
                                        /\ get_page_bounds_overflows(page, page_size),
                           last |-> is_last_page(page, page_size, total_accounts)],
                dirty |-> ProgressNew, out |-> NoOut]
    /\ Applied

\* The pages of a list of total_accounts entries, walked until the first
\* last page, and the page after it.
ApplyPageTiling(page_size, total_accounts, overflow_checks) ==
    /\ ~initialized
    /\ page_size * MaxPages >= total_accounts
    /\ call' = [op |-> "page_tiling",
                args |-> [page_size |-> page_size, total_accounts |-> total_accounts,
                         overflow_checks |-> overflow_checks],
                now |-> clock,
                result |-> [panic |-> overflow_checks
                                        /\ \E p \in PagesWalked(page_size, total_accounts) :
                                              get_page_size_overflows(p, page_size,
                                                                      total_accounts),
                           last_page |-> LastPage(page_size, total_accounts),
                           covered |-> SumPageSizes(PagesWalked(page_size, total_accounts),
                                                    page_size, total_accounts),
                           after |-> get_page_size(
                                         LastPage(page_size, total_accounts) + 1,
                                         page_size, total_accounts)],
                dirty |-> ProgressNew, out |-> NoOut]
    /\ Applied

MathNext ==
    \/ \E l \in LockedSamples, y \in Y0Samples, m \in MaxBpsSamples :
          ApplyEligibleShare(l, y, m)
    \/ \E c \in ClaimedSamples, b \in ShareBpsSamples : ApplyInvestorFeeQuote(c, b)
    \/ \E l \in LockedSamples, t \in TotalLockedSamples : ApplyInvestorWeight(l, t)
    \/ \E t \in DistributeSamples, w \in WeightSamples, m \in MinPayoutSamples :
          ApplyInvestorPayout(t, w, m)
    \/ \E c \in ClaimedSamples \ {AMOUNT_MAX}, l \in LockedSamples, y \in Y0Samples,
          m \in MaxBpsSamples \ {10001, 2^U16_BITS - 1} : ApplyFeeSplit(c, l, y, m)
    \/ \E t \in DistributeSamples \ {AMOUNT_MAX}, inv \in PageSamples,
          m \in MinPayoutSamples : ApplyPagePayouts(t, inv, m)
    \/ \E p \in PageNumberSamples, s \in PageSizeSamples, c \in BOOLEAN :
          ApplyPageBounds(p, s, c)
    \/ \E p \in PageNumberSamples, s \in PageSizeSamples, t \in TotalAccountsSamples,
          c \in BOOLEAN : ApplyIsLastPage(p, s, t, c)
    \/ \E s \in PageSizeSamples, t \in TotalAccountsSamples, c \in BOOLEAN :
          ApplyPageTiling(s, t, c)

NextMath == Next \/ MathNext

\* The program together with direct calls of its arithmetic.
SpecMath == Init /\ [][NextMath]_vars

\* ------------------------------------------------------------------- claims
\* What the last instruction was and how it ended.
IsCrank == call.op = "crank"
Succeeded == IsCrank /\ call.result = "Ok"
\* The last crank ran before the next rollover of the day it found.
SameDay == IsCrank /\ call.now < pre.progress.last_distribution_ts + SECONDS_PER_DAY
\* The page of the last crank holds at least one locked investor.
LockedPage == call.args.investor_accounts # << >> /\ SumSeq(call.args.investor_accounts) > 0
\* No account differs from what it was when the last instruction started.
NothingChanged == Accounts = pre
\* floor(total_to_distribute * floor(locked_i * 10000 / total_locked) / 10000)
\* of investor i of the last page.
ComputedPayout(i) ==
    (call.out.total_to_distribute
       * ((call.args.investor_accounts[i] * 10000) \div SumSeq(call.args.investor_accounts)))
    \div 10000
\* The investors of the last page whose computed payout is below the threshold.
Dusted == {i \in DOMAIN call.args.investor_accounts :
              ComputedPayout(i) < policy.min_payout_lamports}
RECURSIVE SumOver(_, _)
SumOver(f(_), S) ==
    IF S = {} THEN 0 ELSE LET x == CHOOSE y \in S : TRUE IN f(x) + SumOver(f, S \ {x})

\* C1: a crank whose fee claim reports base_amount # 0 fails with
\* BaseFeeDetected, whatever the quote amount, and Progress, the treasury and
\* every investor and creator balance are what they were before the call.
C1_BaseFeeAborts ==
    (IsCrank /\ call.args.base_amount # 0) =>
        /\ call.result # "Ok"
        /\ call.out.claimed => call.result = "BaseFeeDetected"
        /\ NothingChanged

\* The claim reported a base amount on a call that had already rolled the day
\* over in its working copy of Progress; the accounts kept the old day.
C1_Witness ==
    /\ IsCrank /\ call.args.base_amount # 0 /\ call.result = "BaseFeeDetected"
    /\ call.out.rolled /\ pre.progress.claimed_today > 0
    /\ call.dirty # pre.progress /\ progress = pre.progress

\* C2: with page >= 1, a page holding locked investors and base_amount = 0,
\* a crank at last_distribution_ts + 86399 with day_complete = false fails
\* with DistributionTooEarly, and the same crank at last_distribution_ts +
\* 86400 succeeds, from every reachable Progress.
C2_DayGateBoundary ==
    (IsCrank /\ call.args.page >= 1 /\ LockedPage /\ call.args.base_amount = 0) =>
        /\ (call.now = pre.progress.last_distribution_ts + 86399 /\ ~pre.progress.day_complete)
              => call.result = "DistributionTooEarly"
        /\ (call.now = pre.progress.last_distribution_ts + 86400)
              => call.result = "Ok"

\* A crank exactly 86400 seconds after an earlier distribution succeeded.
C2_Witness ==
    /\ Succeeded /\ pre.progress.last_distribution_ts > 0
    /\ call.now = pre.progress.last_distribution_ts + 86400
    /\ progress.last_distribution_ts = call.now

\* C3: a crank that finds day_complete = true and no day rollover
\* (now < last_distribution_ts + 86400) fails with DistributionAlreadyComplete.
C3_AlreadyComplete ==
    (IsCrank /\ call.args.page >= 1 /\ pre.progress.day_complete /\ SameDay) =>
        call.result = "DistributionAlreadyComplete"

\* C4: after every successful crank, over any number of days, closed or not,
\* distributed_today <= claimed_today.
C4_DistributedWithinClaimed ==
    Succeeded => progress.distributed_today <= progress.claimed_today

\* C5: in every successful crank that closes the day, distributed_today +
\* carry_over as stored after the close + the remainder transferred to the
\* creator in that call = claimed_today.
C5_ConservationAtClose ==
    (Succeeded /\ progress.day_complete) =>
        progress.distributed_today + progress.carry_over + (creator - pre.creator)
            = progress.claimed_today

\* C6: in every reachable state distributed_today <= policy.daily_cap: what
\* investors receive in a day, carry-over included, never exceeds the cap.
C6_DailyCapCeiling ==
    initialized => progress.distributed_today <= policy.daily_cap

\* C7: once a page has been processed for a day, every later crank of that
\* day (before the next rollover) with page <= pagination_cursor fails,
\* transfers nothing and leaves Progress unchanged; within a day
\* pagination_cursor never decreases.
C7_NoResubmission ==
    (SameDay /\ pre.progress.pagination_cursor >= 1) =>
        /\ progress.pagination_cursor >= pre.progress.pagination_cursor
        /\ (call.args.page <= pre.progress.pagination_cursor)
              => (call.result # "Ok" /\ NothingChanged)

\* Page 1 of an open day was resubmitted with a valid claim and a locked page.
C7_Witness ==
    /\ SameDay /\ pre.progress.pagination_cursor >= 1 /\ ~pre.progress.day_complete
    /\ call.args.page >= 1 /\ call.args.page <= pre.progress.pagination_cursor
    /\ call.args.base_amount = 0 /\ LockedPage
    /\ call.result # "Ok" /\ NothingChanged

\* C8: after a page was accepted with day_complete = false, a later crank of
\* the same day with a higher page number (valid claim, locked page) is
\* accepted, and claimed_today and distributed_today accumulate over the
\* pages of the day.
C8_MultiPageDay ==
    (SameDay /\ pre.progress.pagination_cursor >= 1 /\ ~pre.progress.day_complete
       /\ call.args.page > pre.progress.pagination_cursor
       /\ call.args.base_amount = 0 /\ LockedPage) =>
        /\ call.result = "Ok"
        /\ progress.current_day = pre.progress.current_day
        /\ progress.claimed_today = pre.progress.claimed_today + call.args.quote_amount
        /\ progress.distributed_today >= pre.progress.distributed_today

\* C9 as stated: in any successful crank, an investor whose computed payout
\* is below min_payout_lamports receives exactly 0 and that amount is
\* contained in the carry_over stored after the call.
C9_DustRetained ==
    Succeeded =>
        \A i \in Dusted :
            /\ investor[i] = pre.investor[i]
            /\ progress.carry_over >= ComputedPayout(i)

\* C9 amended: in any successful crank every investor whose computed payout
\* is below min_payout_lamports receives exactly 0; when the call does not
\* close the day these amounts are contained in the stored carry_over, and
\* when it closes the day the stored carry_over is 0.
C9_DustRetainedUnlessClosed ==
    Succeeded =>
        /\ \A i \in Dusted : investor[i] = pre.investor[i]
        /\ ~progress.day_complete => progress.carry_over >= SumOver(ComputedPayout, Dusted)
        /\ progress.day_complete => progress.carry_over = 0

\* A payout of min_payout_lamports - 1 was withheld on a page that left the
\* day open, next to an investor that was paid.
C9_Witness ==
    /\ Succeeded /\ ~progress.day_complete
    /\ \E i \in Dusted :
          /\ ComputedPayout(i) = policy.min_payout_lamports - 1
          /\ ComputedPayout(i) > 0
          /\ investor[i] = pre.investor[i]
          /\ progress.carry_over >= ComputedPayout(i)
    /\ call.out.distributed_this_page > 0

\* C10: when the daily cap reduces a page's investor fee, the withheld amount
\* total_investor_fee_quote - capped_investor_fee is included in the
\* carry_over stored after the call (stated for the calls that leave the day
\* open, whose carry_over is not reset by the close).
C10_CapExcessCarried ==
    (Succeeded /\ ~progress.day_complete
       /\ call.out.capped_investor_fee < call.out.total_investor_fee_quote) =>
        progress.carry_over
            >= call.out.total_investor_fee_quote - call.out.capped_investor_fee

\* C11: two successful cranks of the vault are at least 86400 seconds apart:
\* a successful crank stamps last_distribution_ts with its own timestamp, and
\* a later successful crank runs at or after that stamp + 86400, whether or
\* not the earlier day was closed; a second crank at the timestamp of a
\* committed one does not commit.
C11_CrossDayOrdering ==
    /\ Succeeded => progress.last_distribution_ts = call.now
    /\ (Succeeded /\ pre.progress.pagination_cursor >= 1)
          => call.now >= pre.progress.last_distribution_ts + 86400
    /\ (IsCrank /\ pre.progress.pagination_cursor >= 1
          /\ call.now = pre.progress.last_distribution_ts)
          => (call.result # "Ok" /\ NothingChanged)

\* A second crank committed one day after a page that had left its day open.
C11_Witness ==
    /\ Succeeded /\ pre.progress.pagination_cursor >= 1 /\ ~pre.progress.day_complete
    /\ call.now >= pre.progress.last_distribution_ts + 86400
    /\ progress.last_distribution_ts = call.now
    /\ progress.current_day > pre.progress.current_day

\* C12: for all locked_total, y0 (u64) and max_bps (u16) the result of
\* calculate_eligible_share_bps is <= max_bps and <= 10000.
C12_EligibleShareBounded ==
    call.op = "calculate_eligible_share_bps" =>
        /\ call.result <= call.args.max_bps
        /\ call.result <= 10000

\* C13: for y0 > 0 the investor fee computed by a crank is
\* floor(claimed_quote * min(floor(locked_total * 10000 / y0), max_bps) / 10000),
\* and it is 0 when the eligible share is 0 or y0 = 0; y0 = 1000000,
\* max_bps = 5000, locked_total = 500000, claimed_quote = 100000 give the
\* eligible share 5000 and the investor fee 50000.
C13_FeeSplit ==
    /\ Succeeded =>
          LET locked_total == SumSeq(call.args.investor_accounts)
              share == IF (locked_total * 10000) \div policy.y0
                            <= policy.investor_fee_share_bps
                       THEN (locked_total * 10000) \div policy.y0
                       ELSE policy.investor_fee_share_bps
          IN  /\ call.out.eligible_share_bps = share
              /\ call.out.total_investor_fee_quote
                    = (call.args.quote_amount * share) \div 10000
    /\ call.op = "fee_split" =>
          LET a == call.args
          IN  /\ (a.y0 = 0 \/ call.result.eligible_share_bps = 0)
                    => call.result.total_investor_fee_quote = 0
              /\ (a.y0 > 0 /\ a.locked_total <= 1000) =>
                    LET f == (a.locked_total * 10000) \div a.y0
                        share == IF f <= a.max_bps THEN f ELSE a.max_bps
                    IN  /\ call.result.eligible_share_bps = share
                        /\ call.result.total_investor_fee_quote
                              = (a.claimed_quote * share) \div 10000
              /\ (a.y0 = 1000000 /\ a.max_bps = 5000 /\ a.locked_total = 500000
                    /\ a.claimed_quote = 100000)
                    => /\ call.result.eligible_share_bps = 5000
                       /\ call.result.total_investor_fee_quote = 50000

\* A crank split a claim with the eligible share cut down to the policy's
\* investor_fee_share_bps.
C13_Witness ==
    /\ Succeeded
    /\ (SumSeq(call.args.investor_accounts) * 10000) \div policy.y0
          > policy.investor_fee_share_bps
    /\ call.out.eligible_share_bps = policy.investor_fee_share_bps
    /\ call.out.total_investor_fee_quote > 0
    /\ call.out.total_investor_fee_quote < call.args.quote_amount

\* C14: in a successful crank each investor i of the page is transferred
\* floor(total_to_distribute * floor(locked_i * 10000 / total_locked) / 10000)
\* when that is >= min_payout_lamports and nothing otherwise; locked
\* {300, 700} with total_to_distribute 1000 and min_payout <= 300 give the
\* weights {3000, 7000}, the payouts {300, 700} and the carry-over 0.
C14_ProRataPayout ==
    /\ Succeeded =>
          \A a \in Atas :
              investor[a] - pre.investor[a] =
                  IF a \in DOMAIN call.args.investor_accounts
                        /\ ComputedPayout(a) >= policy.min_payout_lamports
                  THEN ComputedPayout(a) ELSE 0
    /\ call.op = "page_payouts" =>
          LET a == call.args
              total_locked == SumSeq(a.investor_accounts)
              expected(i) == (a.total * ((a.investor_accounts[i] * 10000) \div total_locked))
                                \div 10000
          IN  /\ \A i \in DOMAIN a.investor_accounts :
                    call.result.payouts[i] =
                        IF expected(i) >= a.min_payout THEN expected(i) ELSE 0
              /\ (a.investor_accounts = <<300, 700>> /\ a.total = 1000 /\ a.min_payout <= 300)
                    => /\ calculate_investor_weight(a.investor_accounts[1], total_locked) = 3000
                       /\ calculate_investor_weight(a.investor_accounts[2], total_locked) = 7000
                       /\ call.result.payouts = <<300, 700>>
                       /\ call.result.carry_over = 0

\* A crank paid both investors of a page their pro-rata shares.
C14_Witness ==
    /\ Succeeded /\ Len(call.args.investor_accounts) = 2
    /\ \A i \in {1, 2} :
          /\ investor[i] - pre.investor[i] = ComputedPayout(i)
          /\ ComputedPayout(i) > 0
    /\ investor[1] - pre.investor[1] < investor[2] - pre.investor[2]

\* C15: for all inputs in their declared ranges calculate_eligible_share_bps,
\* calculate_investor_fee_quote, calculate_investor_weight and
\* calculate_investor_payout return the exact value of their formula, never
\* a value truncated to the result width (the functions' u128 products
\* cannot fail, so each application returns a number).
C15_NoSilentWraparound ==
    LET a == call.args
    IN  /\ (call.op = "calculate_eligible_share_bps" /\ a.y0 # 0) =>
              call.result = Min(WideMulDiv(a.locked_total, 10000, a.y0), a.max_bps)
        /\ (call.op = "calculate_investor_fee_quote") =>
              call.result = WideMulDiv(a.claimed_quote, a.eligible_share_bps, 10000)
        /\ (call.op = "calculate_investor_weight" /\ a.total_locked # 0) =>
              call.result = WideMulDiv(a.investor_locked, 10000, a.total_locked)
        /\ (call.op = "calculate_investor_payout") =>
              call.result = (IF WideMulDiv(a.total, a.weight_bps, 10000) < a.min_payout
                                THEN 0 ELSE WideMulDiv(a.total, a.weight_bps, 10000))

\* C16: initialize creates Policy and Progress only if
\* investor_fee_share_bps <= 10000, daily_cap > 0, min_payout_lamports > 0
\* and y0 > 0; otherwise it fails with the error of the first violated check
\* in that order and no record exists afterwards; on success Progress starts
\* with every counter, the cursor, carry_over, current_day and
\* last_distribution_ts at 0 and day_complete = false.
C16_InitializeValidation ==
    call.op = "initialize" =>
        LET a == call.args
        IN  /\ a.investor_fee_share_bps > 10000 => call.result = "InvalidFeeShareBps"
            /\ (a.investor_fee_share_bps <= 10000 /\ a.daily_cap = 0)
                  => call.result = "InvalidDailyCap"
            /\ (a.investor_fee_share_bps <= 10000 /\ a.daily_cap > 0
                  /\ a.min_payout_lamports = 0) => call.result = "InvalidMinPayout"
            /\ (a.investor_fee_share_bps <= 10000 /\ a.daily_cap > 0
                  /\ a.min_payout_lamports > 0 /\ a.y0 = 0) => call.result = "InvalidY0"
            /\ call.result # "Ok" => (~initialized /\ policy = NoPolicy)
            /\ call.result = "Ok" =>
                  /\ a.investor_fee_share_bps <= 10000 /\ a.daily_cap > 0
                  /\ a.min_payout_lamports > 0 /\ a.y0 > 0
                  /\ initialized
                  /\ policy = [investor_fee_share_bps |-> a.investor_fee_share_bps,
                               daily_cap |-> a.daily_cap,
                               min_payout_lamports |-> a.min_payout_lamports,
                               y0 |-> a.y0]
                  /\ progress = [last_distribution_ts |-> 0, distributed_today |-> 0,
                                 carry_over |-> 0, pagination_cursor |-> 0,
                                 current_day |-> 0, claimed_today |-> 0,
                                 day_complete |-> FALSE]

\* initialize was refused for its daily cap although y0 was invalid too, and
\* left no record.
C16_Witness ==
    /\ call.op = "initialize" /\ call.result = "InvalidDailyCap"
    /\ call.args.investor_fee_share_bps <= 10000
    /\ call.args.daily_cap = 0 /\ call.args.y0 = 0
    /\ ~initialized

\* C17: initialize (with valid parameters) fails with InvalidPoolTokenOrder,
\* creating no Policy or Progress, whenever the pool's second token is not
\* the quote mint.
C17_PoolTokenOrder ==
    (call.op = "initialize" /\ PolicyValidate(PolicyNew(call.args.investor_fee_share_bps,
            call.args.daily_cap, call.args.min_payout_lamports, call.args.y0)) = "Ok"
       /\ ~call.args.pool_token_b_is_quote) =>
        (call.result = "InvalidPoolTokenOrder" /\ ~initialized)

\* C18: a crank that arrives with now >= last_distribution_ts + 86400 resets
\* the day: claimed_today, distributed_today and pagination_cursor to 0,
\* current_day to floor(now / 86400), day_complete to false,
\* last_distribution_ts to now, and carry_over is left as it was, so it is the
\* carry_over_in of the first page of the new day.
C18_DayRollover ==
    (IsCrank /\ call.args.page >= 1
       /\ call.now >= pre.progress.last_distribution_ts + 86400) =>
        /\ call.out.rolled
        /\ call.dirty.last_distribution_ts = call.now
        /\ call.dirty.current_day = call.now \div 86400
        \* the run stopped right after the reset
        /\ (call.result = "BaseFeeDetected" \/ call.args.investor_accounts = << >>) =>
              call.dirty = [last_distribution_ts |-> call.now, distributed_today |-> 0,
                            carry_over |-> pre.progress.carry_over,
                            pagination_cursor |-> 0,
                            current_day |-> call.now \div 86400,
                            claimed_today |-> 0, day_complete |-> FALSE]
        \* the run went on to the page
        /\ call.result = "Ok" =>
              /\ call.out.carry_over_in = pre.progress.carry_over
              /\ progress.claimed_today = call.args.quote_amount
              /\ progress.distributed_today = call.out.distributed_this_page
              /\ progress.pagination_cursor = call.args.page

\* A rollover found a closed-over day with a carry-over and handed it to the
\* first page of the new day.
C18_Witness ==
    /\ Succeeded /\ call.out.rolled
    /\ pre.progress.carry_over > 0 /\ pre.progress.claimed_today > 0
    /\ call.out.carry_over_in = pre.progress.carry_over
    /\ call.out.total_to_distribute
          = call.out.capped_investor_fee + pre.progress.carry_over

\* C19: inside one crank the base-fee check is evaluated before any field of
\* Progress is written and before any token transfer is issued.
C19_BaseFeeCheckFirst ==
    (IsCrank /\ call.result = "BaseFeeDetected") =>
        /\ call.dirty = pre.progress
        /\ call.out.payouts = << >>

\* C20: when the end-of-day condition holds after the page, the call
\* transfers remainder = claimed_today - distributed_today (saturating at 0)
\* to the creator iff it is positive, sets day_complete and zeroes carry_over
\* after the remainder was settled; a page that does not end the day pays the
\* creator nothing and leaves the day open.
C20_DayCloseSettlement ==
    Succeeded =>
        IF call.args.page >= 10
        THEN LET remainder ==
                     IF progress.claimed_today >= progress.distributed_today
                     THEN progress.claimed_today - progress.distributed_today ELSE 0
             IN  /\ creator - pre.creator = remainder
                 /\ call.out.remainder = remainder
                 /\ progress.day_complete
                 /\ progress.carry_over = 0
                 /\ treasury = pre.treasury + call.args.quote_amount
                                 - call.out.distributed_this_page - remainder
        ELSE /\ creator = pre.creator
             /\ ~progress.day_complete
             /\ progress.carry_over = call.out.carry_over_this_page

\* A closing page paid a positive remainder to the creator and dropped a
\* positive carry-over of its page.
C20_Witness ==
    /\ Succeeded /\ call.args.page >= 10 /\ progress.day_complete
    /\ creator - pre.creator > 0
    /\ creator - pre.creator = progress.claimed_today - progress.distributed_today
    /\ call.out.carry_over_this_page > 0 /\ progress.carry_over = 0

\* C21: day_complete goes from false to true only in a successful crank whose
\* page is >= 10, as the last write of that call; every successful crank
\* with page >= 10 sets it; no other operation sets it; and every call that
\* sets it began with a day rollover, so it is set at most once between two
\* consecutive rollovers.
C21_DayCompleteOnce ==
    /\ (progress.day_complete /\ ~pre.progress.day_complete)
          => (Succeeded /\ call.args.page >= 10)
    /\ Succeeded => (progress.day_complete <=> call.args.page >= 10)
    /\ (Succeeded /\ progress.day_complete) =>
          /\ call.out.rolled /\ call.out.closed
          \* the close is the last write: the ledger of the page is in place
          /\ progress.pagination_cursor = call.args.page
          /\ progress.distributed_today = call.out.distributed_this_page
    /\ ~Succeeded => progress.day_complete = pre.progress.day_complete

\* A day that an earlier page had left open was closed by a page >= 10.
C21_Witness ==
    /\ Succeeded /\ call.args.page >= 10
    /\ pre.progress.pagination_cursor >= 1 /\ ~pre.progress.day_complete
    /\ progress.day_complete

\* C22: a successful crank that does not close the day leaves
\* claimed_today = claimed_today_before + quote_amount,
\* distributed_today = distributed_today_before + distributed_this_page,
\* pagination_cursor = page and
\* carry_over = (capped_investor_fee + carry_over_in) - distributed_this_page,
\* the 'before' values being those after the day rollover of the call.
C22_PageLedger ==
    (Succeeded /\ call.args.page < 10) =>
        LET claimed_before == IF call.out.rolled THEN 0 ELSE pre.progress.claimed_today
            distributed_before == IF call.out.rolled THEN 0
                                  ELSE pre.progress.distributed_today
        IN  /\ progress.claimed_today = claimed_before + call.args.quote_amount
            /\ progress.distributed_today
                  = distributed_before + call.out.distributed_this_page
            /\ progress.pagination_cursor = call.args.page
            /\ call.out.carry_over_in = pre.progress.carry_over
            /\ progress.carry_over
                  = (call.out.capped_investor_fee + call.out.carry_over_in)
                       - call.out.distributed_this_page
            /\ call.out.distributed_this_page = SumSeq(call.out.payouts)

\* A page paid an investor and kept a positive carry-over, on a day that
\* followed an earlier distribution day.
C22_Witness ==
    /\ Succeeded /\ call.args.page < 10
    /\ pre.progress.claimed_today > 0
    /\ call.out.distributed_this_page > 0
    /\ progress.carry_over > 0
    /\ progress.claimed_today = call.args.quote_amount

\* C23: when several rejection conditions of a crank hold at once, the error
\* is that of the first failing check in the order InvalidPage (page = 0),
\* DistributionTooEarly, DistributionAlreadyComplete, NoLockedInvestors (empty
\* investor set), BaseFeeDetected, NoLockedInvestors (locked amounts sum to
\* 0); a too-early call with an empty investor set reports
\* DistributionTooEarly and a call with page = 0 reports InvalidPage at any
\* time.
C23_ErrorPrecedence ==
    IsCrank =>
        LET a == call.args
            too_early == call.now < pre.progress.last_distribution_ts + 86400
            empty == a.investor_accounts = << >>
        IN  /\ a.page = 0 => call.result = "InvalidPage"
            /\ (a.page >= 1 /\ too_early) => call.result = "DistributionTooEarly"
            /\ call.result = "DistributionAlreadyComplete"
                  => (a.page >= 1 /\ ~too_early)
            /\ (a.page >= 1 /\ ~too_early /\ empty
                  /\ call.result # "DistributionAlreadyComplete")
                  => call.result = "NoLockedInvestors"
            /\ (a.page >= 1 /\ ~too_early /\ ~empty /\ a.base_amount # 0
                  /\ call.result # "DistributionAlreadyComplete")
                  => call.result = "BaseFeeDetected"
            /\ (a.page >= 1 /\ ~too_early /\ ~empty /\ a.base_amount = 0
                  /\ SumSeq(a.investor_accounts) = 0
                  /\ call.result # "DistributionAlreadyComplete")
                  => call.result = "NoLockedInvestors"

\* A crank that was too early, on a closed day, with an empty investor set
\* and a base-fee claim was answered with DistributionTooEarly.
C23_Witness ==
    /\ IsCrank /\ call.args.page >= 1
    /\ call.now < pre.progress.last_distribution_ts + 86400
    /\ pre.progress.day_complete
    /\ call.args.investor_accounts = << >>
    /\ call.args.base_amount # 0
    /\ call.result = "DistributionTooEarly"

\* C24: in every reachable state current_day = floor(last_distribution_ts /
\* 86400); current_day never decreases, and it strictly increases with every
\* successful crank (the clock never goes backwards).
C24_MonotonicDay ==
    /\ progress.current_day = progress.last_distribution_ts \div 86400
    /\ progress.current_day >= pre.progress.current_day
    /\ Succeeded => progress.current_day > pre.progress.current_day
    /\ ~Succeeded => progress.current_day = pre.progress.current_day

\* A successful crank moved current_day on, at a timestamp that is not the
\* start of a day.
C24_Witness ==
    /\ Succeeded
    /\ progress.current_day > pre.progress.current_day
    /\ progress.last_distribution_ts % 86400 # 0
    /\ progress.current_day = progress.last_distribution_ts \div 86400

\* C25: in every successful crank (locked amounts summing within u64) the sum
\* of the page's payouts, distributed_this_page, is <= total_to_distribute =
\* capped_investor_fee + carry_over_in, so the saturating subtraction of the
\* new carry-over does not saturate and carry_over + distributed_this_page =
\* total_to_distribute.
C25_PayoutsWithinTotal ==
    /\ Succeeded =>
          /\ call.out.total_to_distribute
                = call.out.capped_investor_fee + call.out.carry_over_in
          /\ call.out.distributed_this_page = SumSeq(call.out.payouts)
          /\ call.out.distributed_this_page <= call.out.total_to_distribute
          /\ call.out.carry_over_this_page + call.out.distributed_this_page
                = call.out.total_to_distribute
    /\ call.op = "page_payouts" =>
          /\ SumSeq(call.result.payouts) <= call.args.total
          /\ call.result.carry_over + SumSeq(call.result.payouts) = call.args.total

\* A crank paid both investors of its page and the roundings of the payouts
\* were left as the carry-over.
C25_Witness ==
    /\ Succeeded /\ Len(call.out.payouts) = 2
    /\ call.out.payouts[1] > 0 /\ call.out.payouts[2] > 0
    /\ call.out.carry_over_this_page > 0
    /\ call.out.carry_over_this_page + call.out.distributed_this_page
          = call.out.total_to_distribute

\* C26: starting from an empty treasury, after any sequence of successful
\* cranks the quote amount claimed in total minus the amount transferred in
\* total to investors and to the creator (the treasury balance) is >= the
\* carry_over stored in Progress, hence never negative; no transfer of a
\* crank fails for lack of funds.
C26_TreasurySolvency ==
    /\ treasury >= progress.carry_over
    /\ treasury >= 0
    /\ IsCrank => call.result # "InsufficientFunds"
    \* the treasury is what was claimed and not transferred
    /\ (treasury + creator + SumSeq(investor))
          - (pre.treasury + pre.creator + SumSeq(pre.investor))
          = (IF Succeeded THEN call.args.quote_amount ELSE 0)

\* After cranks on two days the treasury holds more than the carry-over it
\* owes, with investors and the creator paid.
C26_Witness ==
    /\ Succeeded /\ pre.progress.claimed_today > 0
    /\ SumSeq(investor) > 0 /\ creator > 0
    /\ call.out.carry_over_in > 0
    /\ treasury > progress.carry_over

\* C27: the remainder paid to the creator at a day close depends on the
\* closing call alone: it is max(quote_amount - distributed_this_page, 0) of
\* that call; the unpaid creator share of earlier days that were never closed
\* enters no later creator payout and is not added to carry_over.
C27_RemainderOfClosingCall ==
    Succeeded =>
        /\ creator - pre.creator =
              (IF call.args.page >= 10
                     /\ call.args.quote_amount >= call.out.distributed_this_page
               THEN call.args.quote_amount - call.out.distributed_this_page
               ELSE 0)
        /\ call.out.remainder = creator - pre.creator
        /\ call.out.carry_over_in = pre.progress.carry_over
        /\ call.out.total_to_distribute
              = call.out.capped_investor_fee + pre.progress.carry_over
        /\ call.out.capped_investor_fee <= call.args.quote_amount
        /\ progress.carry_over <= call.out.total_to_distribute

\* A close on the day after a day that was never closed paid the creator the
\* remainder of its own claim and left the earlier day's share in the
\* treasury.
C27_Witness ==
    /\ Succeeded /\ call.args.page >= 10
    /\ pre.progress.claimed_today > pre.progress.distributed_today
    /\ ~pre.progress.day_complete
    /\ pre.treasury > pre.progress.carry_over
    /\ creator - pre.creator
          = call.args.quote_amount - call.out.distributed_this_page
    /\ creator - pre.creator > 0
    /\ progress.carry_over = 0 /\ treasury > 0

\* C28: for page >= 1 and page_size >= 1, get_page_bounds(page, size) =
\* ((page - 1) * size, page * size), is_last_page(page, size, total) holds iff
\* page * size >= total, and the get_page_size values of the pages 1..L, L
\* being the first page with is_last_page true, sum to exactly total, the
\* pages after L having size 0.
C28_PaginationTiles ==
    LET a == call.args
        r == call.result
    IN  /\ call.op = "get_page_bounds" =>
              /\ ~r.panic
              /\ r.start = (a.page - 1) * a.page_size
              /\ r.end = a.page * a.page_size
        /\ call.op = "is_last_page" =>
              /\ ~r.panic
              /\ r.last <=> (a.page * a.page_size >= a.total_accounts)
        /\ call.op = "page_tiling" =>
              /\ ~r.panic
              /\ r.last_page >= 1
              /\ r.covered = a.total_accounts
              /\ r.after = 0

====
